---- MODULE Spec2Model ----
(***************************************************************************)
(* A model of ml/recommender.py: the CodeforcesRecommender singleton, its  *)
(* three persisted files, the two Codeforces endpoints it reads and the    *)
(* /recommend and /refresh handlers.                                       *)
(*                                                                         *)
(* Numbers.  The program computes in float64; the model computes in fixed  *)
(* point with Scale units per 1.0 and rounds down.  Every arithmetic step  *)
(* of the program (idf, l2 norm, min-max scaling, mean, cosine) is carried *)
(* out, each in that fixed point.                                          *)
(*                                                                         *)
(* Optional values.  Python's None is the empty sequence None and a        *)
(* present value v is the one-element sequence Some(v).                    *)
(***************************************************************************)
EXTENDS Integers, Sequences, FiniteSets, TLC

None == << >>
Some(v) == << v >>
IsNone(o) == o = << >>
Get(o) == o[1]

(***************************************************************************)
(* Program constants.                                                      *)
(***************************************************************************)
CACHE_TIME == 3600
max_features == 100
DefaultRating == 1500
DefaultCount == 10

(***************************************************************************)
(* Bounds of the model.                                                    *)
(***************************************************************************)
Scale == 100
MaxTicks == 1
MaxSubmissions == 2

Tick == CACHE_TIME + 1

(***************************************************************************)
(* Helpers on sequences and numbers.                                       *)
(***************************************************************************)
RECURSIVE SumSeq(_)
SumSeq(s) == IF s = << >> THEN 0 ELSE Head(s) + SumSeq(Tail(s))

RECURSIVE ISqrt(_)
ISqrt(n) ==
    IF n < 2 THEN n
    ELSE LET s == 2 * ISqrt(n \div 4)
         IN  IF (s + 1) * (s + 1) <= n THEN s + 1 ELSE s

Range(s) == { s[i] : i \in DOMAIN s }

MinOf(S) == CHOOSE x \in S : \A y \in S : x <= y
MaxOf(S) == CHOOSE x \in S : \A y \in S : x >= y

Dot(u, v) == SumSeq([j \in DOMAIN u |-> u[j] * v[j]])

(***************************************************************************)
(* The identity key of a problem: f"{contestId}_{index}".                  *)
(***************************************************************************)
ProblemId(contestId, index) == ToString(contestId) \o "_" \o index

RowId(row) == ProblemId(row.contestId, row.index)

(***************************************************************************)
(* The problem set the Codeforces API can answer with.  A problem without  *)
(* a "rating" key is an unrated problem; a DataFrame built from the list   *)
(* reads its rating as NaN.                                                *)
(***************************************************************************)
P1A == [contestId |-> 1, index |-> "A", tags |-> <<"math">>, rating |-> 800]
P1B == [contestId |-> 1, index |-> "B", tags |-> <<"dp">>, rating |-> 1200]
P2A == [contestId |-> 2, index |-> "A", tags |-> <<"math", "dp">>, rating |-> 1600]
P2B == [contestId |-> 2, index |-> "B", tags |-> <<"two pointers">>]
P3A == [contestId |-> 3, index |-> "A", tags |-> <<"dp">>, rating |-> 1200]

Stat(c, i, n) == [contestId |-> c, index |-> i, solvedCount |-> n]

ProblemsetResponses ==
    { [status |-> "OK",
       result |-> [problems |-> <<P1A, P1B, P2A>>,
                   problemStatistics |->
                       <<Stat(1, "A", 9), Stat(1, "B", 5), Stat(2, "A", 1)>>]],
      [status |-> "OK",
       result |-> [problems |-> <<P1B, P2B, P3A>>,
                   problemStatistics |-> <<Stat(1, "B", 5), Stat(3, "A", 5)>>]],
      [status |-> "FAILED", comment |-> "Call limit exceeded"],
      [comment |-> "no status"],
      [raised |-> "ConnectionError"] }

(***************************************************************************)
(* The submissions a handle can make.                                      *)
(***************************************************************************)
Handles == {"alice"}

Submission(c, i, v) == [problem |-> [contestId |-> c, index |-> i], verdict |-> v]

Submissions ==
    { Submission(1, "B", "OK"), Submission(1, "A", "WRONG_ANSWER"),
      Submission(7, "Z", "OK") }

UserStatusOutcomes == {"OK", "FAILED", "raised"}

(***************************************************************************)
(* requests.get(...).json() of user.status for a handle whose submissions  *)
(* are subs, under each outcome of the call.                               *)
(***************************************************************************)
UserStatusResponse(outcome, subs) ==
    CASE outcome = "OK" -> [status |-> "OK", result |-> subs]
      [] outcome = "FAILED" -> [status |-> "FAILED", comment |-> "handle not found"]
      [] OTHER -> [raised |-> "ConnectionError"]

Raised(response) == "raised" \in DOMAIN response

(***************************************************************************)
(* pandas: the columns of DataFrame(records) are the union of the keys,    *)
(* and a key a record lacks reads as NaN.                                  *)
(***************************************************************************)
Columns(df) == UNION { DOMAIN df[i] : i \in DOMAIN df }

IsNaN(row, col) == col \notin DOMAIN row

FillNa(row, col, default) == IF IsNaN(row, col) THEN default ELSE row[col]

(***************************************************************************)
(* The text ' '.join(tags), held as its whitespace-separated words.        *)
(***************************************************************************)
WordsOf(tag) ==
    CASE tag = "two pointers" -> <<"two", "pointers">>
      [] OTHER -> << tag >>

RECURSIVE JoinTags(_)
JoinTags(tags) ==
    IF tags = << >> THEN << >> ELSE WordsOf(Head(tags)) \o JoinTags(Tail(tags))

WithTagsText(df) ==
    [i \in DOMAIN df |-> [tags_text |-> JoinTags(df[i].tags)] @@ df[i]]

(***************************************************************************)
(* TfidfVectorizer(max_features=100): the analyzer keeps the words of two  *)
(* or more characters; the vocabulary is the terms in alphabetical order,  *)
(* cut to the max_features most frequent; idf = ln((1+n)/(1+df)) + 1,      *)
(* with ln x taken as 2(x-1)/(x+1); a row is tf*idf, l2-normalised.        *)
(***************************************************************************)
Alphabet == <<"dp", "math", "pointers", "two">>

Analyze(text) == SelectSeq(text, LAMBDA w : Len(w) >= 2)

TermCount(term, text) == Len(SelectSeq(Analyze(text), LAMBDA w : w = term))

DocFreq(term, texts) == Cardinality({ i \in DOMAIN texts : TermCount(term, texts[i]) > 0 })

TotalCount(term, texts) == SumSeq([i \in DOMAIN texts |-> TermCount(term, texts[i])])

LnFixed(num, den) == (2 * Scale * (num - den)) \div (num + den)

Fit(texts) ==
    LET seen == SelectSeq(Alphabet, LAMBDA t : DocFreq(t, texts) > 0)
        Rank(t) == Cardinality({ u \in Range(seen) :
                       \/ TotalCount(u, texts) > TotalCount(t, texts)
                       \/ /\ TotalCount(u, texts) = TotalCount(t, texts)
                          /\ \E i, j \in DOMAIN seen : i < j /\ seen[i] = u /\ seen[j] = t })
        vocabulary == SelectSeq(seen, LAMBDA t : Rank(t) < max_features)
    IN  [vocabulary |-> vocabulary,
         idf |-> [j \in DOMAIN vocabulary |->
                     Scale + LnFixed(1 + Len(texts), 1 + DocFreq(vocabulary[j], texts))]]

\* sklearn's normalize(X, norm='l2'): a row of norm zero is left as it is
Normalize(v) ==
    LET norm == ISqrt(Dot(v, v))
    IN  [j \in DOMAIN v |-> IF norm = 0 THEN v[j] ELSE (v[j] * Scale) \div norm]

Transform(vectorizer, texts) ==
    [i \in DOMAIN texts |->
        Normalize([j \in DOMAIN vectorizer.vocabulary |->
                      TermCount(vectorizer.vocabulary[j], texts[i]) * vectorizer.idf[j]])]

(***************************************************************************)
(* MinMaxScaler().fit_transform of one column: (x - min) / (max - min),    *)
(* and 0 for a constant column.                                            *)
(***************************************************************************)
MinMaxScale(column) ==
    LET lo == MinOf(Range(column))
        hi == MaxOf(Range(column))
    IN  [i \in DOMAIN column |->
            IF hi = lo THEN 0 ELSE ((column[i] - lo) * Scale) \div (hi - lo)]

(***************************************************************************)
(* np.mean(rows, axis=0), and one entry of cosine_similarity([u], rows):   *)
(* both vectors are l2-normalised, then multiplied.                        *)
(***************************************************************************)
MeanRows(rows) ==
    [j \in DOMAIN rows[1] |-> SumSeq([i \in DOMAIN rows |-> rows[i][j]]) \div Len(rows)]

Cosine(u, v) == Dot(Normalize(u), Normalize(v)) \div Scale

(***************************************************************************)
(* State.  The fields of the recommender instance, the three files beside  *)
(* the module, the clock, what each handle has submitted on Codeforces,    *)
(* and a record of the last request served.                                *)
(***************************************************************************)
VARIABLES
    problems_df,        \* None, or Some(rows of the DataFrame)
    tfidf_vectorizer,   \* None, or Some([vocabulary, idf])
    problem_vectors,    \* None, or Some(matrix: one row per problem)
    user_vectors,       \* handle -> list of numbers
    last_update,        \* time of the last successful fetch of this instance
    PROBLEMS_PATH,      \* None, or Some([data, mtime]): problems_data.json
    TFIDF_MODEL_PATH,   \* None, or Some(vectorizer): tfidf_vectorizer.pkl
    USER_VECTORS_PATH,  \* None, or Some(handle -> list): user_vectors.json
    now,                \* time.time()
    submissions,        \* handle -> set of submissions on Codeforces
    fetch_time,         \* None, or Some(when problemset.problems was last requested)
    last                \* the last request and what it returned

vars == << problems_df, tfidf_vectorizer, problem_vectors, user_vectors, last_update,
           PROBLEMS_PATH, TFIDF_MODEL_PATH, USER_VECTORS_PATH, now, submissions,
           fetch_time, last >>

Self ==
    [problems_df |-> problems_df, tfidf_vectorizer |-> tfidf_vectorizer,
     problem_vectors |-> problem_vectors, user_vectors |-> user_vectors,
     last_update |-> last_update]

Disk ==
    [problems |-> PROBLEMS_PATH, tfidf |-> TFIDF_MODEL_PATH,
     user_vectors |-> USER_VECTORS_PATH]

EmptyMap == [h \in {} |-> << >>]

(***************************************************************************)
(* CodeforcesRecommender.__init__ before it calls initialize().            *)
(***************************************************************************)
NewInstance ==
    [problems_df |-> None, tfidf_vectorizer |-> None, problem_vectors |-> None,
     user_vectors |-> EmptyMap, last_update |-> 0]

(***************************************************************************)
(* fetch_problems.  The statistics are joined onto the problems by         *)
(* identity key, zero when absent; the DataFrame replaces problems_df and  *)
(* the list is written to PROBLEMS_PATH.  Every failure happens before the *)
(* first assignment.                                                       *)
(***************************************************************************)
RECURSIVE StatsDict(_)
StatsDict(stats) ==
    IF stats = << >> THEN [k \in {} |-> 0]
    ELSE LET stat == stats[Len(stats)]
         IN  (RowId(stat) :> FillNa(stat, "solvedCount", 0))
                 @@ StatsDict(SubSeq(stats, 1, Len(stats) - 1))

AddSolvedCount(problems, stats) ==
    LET stats_dict == StatsDict(stats)
    IN  [i \in DOMAIN problems |->
            [solvedCount |-> IF RowId(problems[i]) \in DOMAIN stats_dict
                             THEN stats_dict[RowId(problems[i])] ELSE 0]
                @@ problems[i]]

fetch_problems(self, disk, response, t) ==
    IF Raised(response) \/ "status" \notin DOMAIN response
    THEN [self |-> self, disk |-> disk, ret |-> FALSE]
    ELSE IF response.status = "OK"
    THEN LET problems == AddSolvedCount(response.result.problems,
                                        FillNa(response.result, "problemStatistics", << >>))
         IN  [self |-> [self EXCEPT !.problems_df = Some(problems), !.last_update = t],
              disk |-> [disk EXCEPT !.problems = Some([data |-> problems, mtime |-> t])],
              ret |-> TRUE]
    ELSE [self |-> self, disk |-> disk, ret |-> FALSE]

(***************************************************************************)
(* process_problem_features: the feature matrix of the resident corpus     *)
(* under the resident vectorizer, one row per problem:                     *)
(* [tf-idf of the tags..., scaled rating, scaled solved count].            *)
(***************************************************************************)
FeatureMatrix(df, vectorizer) ==
    LET texts == [i \in DOMAIN df |-> df[i].tags_text]
        tags_tfidf == Transform(vectorizer, texts)
        ratings_scaled ==
            MinMaxScale([i \in DOMAIN df |-> FillNa(df[i], "rating", DefaultRating)])
        solved_scaled ==
            MinMaxScale([i \in DOMAIN df |-> FillNa(df[i], "solvedCount", 0)])
    IN  [i \in DOMAIN df |-> tags_tfidf[i] \o << ratings_scaled[i], solved_scaled[i] >>]

process_problem_features(self) ==
    IF IsNone(self.problems_df) \/ IsNone(self.tfidf_vectorizer)
    THEN [self |-> self, ret |-> FALSE]
    ELSE LET df == IF "tags_text" \notin Columns(Get(self.problems_df))
                   THEN WithTagsText(Get(self.problems_df))
                   ELSE Get(self.problems_df)
         IN  [self |-> [self EXCEPT
                           !.problems_df = Some(df),
                           !.problem_vectors =
                               Some(FeatureMatrix(df, Get(self.tfidf_vectorizer)))],
              ret |-> TRUE]

(***************************************************************************)
(* create_tfidf_vectorizer: fit on the resident corpus, save the model,    *)
(* then process_problem_features.                                          *)
(***************************************************************************)
create_tfidf_vectorizer(self, disk) ==
    IF IsNone(self.problems_df) \/ "tags" \notin Columns(Get(self.problems_df))
    THEN [self |-> self, disk |-> disk, ret |-> FALSE]
    ELSE LET df == WithTagsText(Get(self.problems_df))
             vectorizer == Fit([i \in DOMAIN df |-> df[i].tags_text])
             fitted == [self EXCEPT !.problems_df = Some(df),
                                    !.tfidf_vectorizer = Some(vectorizer)]
         IN  [self |-> process_problem_features(fitted).self,
              disk |-> [disk EXCEPT !.tfidf = Some(vectorizer)],
              ret |-> TRUE]

(***************************************************************************)
(* initialize: the cached corpus if it is younger than CACHE_TIME, else a  *)
(* fetch; then the saved user vectors; then the saved vectorizer, or a     *)
(* newly fitted one.                                                       *)
(***************************************************************************)
CacheIsFresh(disk, t) ==
    ~IsNone(disk.problems) /\ t - Get(disk.problems).mtime < CACHE_TIME

\* faulty variant: the saved vectorizer is ignored and a new one is fit at every start
initialize_refit(self, disk, response, t) ==
    LET a == IF CacheIsFresh(disk, t)
             THEN [self |-> [self EXCEPT !.problems_df = Some(Get(disk.problems).data)],
                   disk |-> disk]
             ELSE fetch_problems(self, disk, response, t)
        b == IF ~IsNone(a.disk.user_vectors)
             THEN [a.self EXCEPT !.user_vectors = Get(a.disk.user_vectors)]
             ELSE a.self
        c == create_tfidf_vectorizer(b, a.disk)
    IN  [self |-> c.self, disk |-> c.disk]

initialize(self, disk, response, t) ==
    LET a == IF CacheIsFresh(disk, t)
             THEN [self |-> [self EXCEPT !.problems_df = Some(Get(disk.problems).data)],
                   disk |-> disk]
             ELSE fetch_problems(self, disk, response, t)
        b == IF ~IsNone(a.disk.user_vectors)
             THEN [a.self EXCEPT !.user_vectors = Get(a.disk.user_vectors)]
             ELSE a.self
    IN  IF ~IsNone(a.disk.tfidf)
        THEN [self |-> process_problem_features(
                           [b EXCEPT !.tfidf_vectorizer = Some(Get(a.disk.tfidf))]).self,
              disk |-> a.disk]
        ELSE LET c == create_tfidf_vectorizer(b, a.disk)
             IN  [self |-> c.self, disk |-> c.disk]

(***************************************************************************)
(* The identity keys of the accepted submissions of a user.status result.  *)
(***************************************************************************)
\* faulty variant: every submission counts as solved, whatever its verdict
SolvedProblemsAnyVerdict(result) == { RowId(sub.problem) : sub \in result }

SolvedProblems(result) ==
    { RowId(sub.problem) : sub \in { x \in result : x.verdict = "OK" } }

(***************************************************************************)
(* create_user_vector: the mean of the feature rows of the solved problems *)
(* found in the corpus, or of the whole matrix when there is none; stored  *)
(* under the handle and saved.  Any exception, and any status but OK,      *)
(* returns None and stores nothing.                                        *)
(***************************************************************************)
create_user_vector(self, disk, user_handle, response) ==
    LET failed == [self |-> self, disk |-> disk, ret |-> None]
        stored(user_vector) ==
            LET vectors == (user_handle :> user_vector) @@ self.user_vectors
            IN  [self |-> [self EXCEPT !.user_vectors = vectors],
                 disk |-> [disk EXCEPT !.user_vectors = Some(vectors)],
                 ret |-> Some(user_vector)]
    IN  IF Raised(response) \/ "status" \notin DOMAIN response THEN failed
        ELSE IF response.status # "OK" THEN failed
        ELSE LET solved_problems == SolvedProblems(response.result)
             IN  IF solved_problems = {}
                 THEN IF IsNone(self.problem_vectors) THEN failed
                      ELSE stored(MeanRows(Get(self.problem_vectors)))
                 ELSE IF IsNone(self.problems_df) THEN failed
                 ELSE LET df == Get(self.problems_df)
                          problem_indices ==
                              SelectSeq([i \in DOMAIN df |-> i],
                                        LAMBDA i : RowId(df[i]) \in solved_problems)
                      IN  IF IsNone(self.problem_vectors) THEN failed
                          ELSE IF problem_indices = << >>
                          THEN stored(MeanRows(Get(self.problem_vectors)))
                          ELSE IF \E k \in DOMAIN problem_indices :
                                      problem_indices[k] > Len(Get(self.problem_vectors))
                          THEN failed
                          ELSE stored(MeanRows(
                                   [k \in DOMAIN problem_indices |->
                                       Get(self.problem_vectors)[problem_indices[k]]]))

(***************************************************************************)
(* The steps of get_recommendations after the user vector.                 *)
(***************************************************************************)
WithSimilarity(df, user_vector, matrix) ==
    [i \in DOMAIN df |->
        [similarity |-> Cosine(user_vector, matrix[i]), problem_id |-> RowId(df[i])]
            @@ df[i]]

\* faulty variant: the lower bound is exclusive
RatingAbove(row, min_rating) == ~IsNaN(row, "rating") /\ row.rating > min_rating

RatingAtLeast(row, min_rating) == ~IsNaN(row, "rating") /\ row.rating >= min_rating

RatingAtMost(row, max_rating) == ~IsNaN(row, "rating") /\ row.rating <= max_rating

HasAnyTag(row, tags) == \E k \in DOMAIN tags : tags[k] \in Range(row.tags)

\* faulty variant: the rating filters read a missing rating as the default rating
KeepFilled(row, solved_problems, min_rating, max_rating, tags) ==
    /\ row.problem_id \notin solved_problems
    /\ IsNone(min_rating) \/ FillNa(row, "rating", DefaultRating) >= Get(min_rating)
    /\ IsNone(max_rating) \/ FillNa(row, "rating", DefaultRating) <= Get(max_rating)
    /\ IsNone(tags) \/ HasAnyTag(row, Get(tags))

Keep(row, solved_problems, min_rating, max_rating, tags) ==
    /\ row.problem_id \notin solved_problems
    /\ IsNone(min_rating) \/ RatingAtLeast(row, Get(min_rating))
    /\ IsNone(max_rating) \/ RatingAtMost(row, Get(max_rating))
    /\ IsNone(tags) \/ HasAnyTag(row, Get(tags))

(***************************************************************************)
(* sort_values('similarity', ascending=False) sorts with kind='quicksort', *)
(* which is not stable: every arrangement of the rows in which similarity  *)
(* never increases is a possible result.                                   *)
(***************************************************************************)
Orders(n) ==
    { f \in [1..n -> 1..n] : \A i, j \in 1..n : i # j => f[i] # f[j] }

\* faulty variant: ascending=True
sort_values_ascending(rows) ==
    { [k \in DOMAIN rows |-> rows[f[k]]] : f \in
        { g \in Orders(Len(rows)) :
            \A i, j \in DOMAIN rows :
                i < j => rows[g[i]].similarity <= rows[g[j]].similarity } }

sort_values(rows) ==
    { [k \in DOMAIN rows |-> rows[f[k]]] : f \in
        { g \in Orders(Len(rows)) :
            \A i, j \in DOMAIN rows :
                i < j => rows[g[i]].similarity >= rows[g[j]].similarity } }

head(rows, n) ==
    IF n >= 0
    THEN SubSeq(rows, 1, IF n < Len(rows) THEN n ELSE Len(rows))
    ELSE SubSeq(rows, 1, IF Len(rows) + n > 0 THEN Len(rows) + n ELSE 0)

(***************************************************************************)
(* get_recommendations: the set of its possible outcomes.  status1 is the  *)
(* outcome of the user.status call of create_user_vector (made only when   *)
(* no vector is stored for the handle), status2 that of the call for the   *)
(* solved set.  An outcome is the instance and the files afterwards, the   *)
(* list returned, or raised = TRUE when the exception leaves the method,   *)
(* with the user vector scored against and the solved set excluded.        *)
(***************************************************************************)
get_recommendations(self, disk, subs, user_handle, n_recommendations, min_rating, max_rating, tags, status1, status2) ==
    LET cached == user_handle \in DOMAIN self.user_vectors
        made == IF cached
                THEN [self |-> self, disk |-> disk,
                      ret |-> Some(self.user_vectors[user_handle])]
                ELSE create_user_vector(self, disk, user_handle,
                                        UserStatusResponse(status1, subs))
        outcome(raised, ret, scored, solved) ==
            [self |-> made.self, disk |-> made.disk, raised |-> raised, ret |-> ret,
             cached |-> cached, user_vector |-> scored, solved_problems |-> solved]
    IN  IF IsNone(made.ret) THEN { outcome(FALSE, << >>, None, {}) }
        ELSE IF \/ IsNone(made.self.problem_vectors)
                \/ IsNone(made.self.problems_df)
        THEN { outcome(TRUE, << >>, made.ret, {}) }
        ELSE LET user_vector == Get(made.ret)
                 matrix == Get(made.self.problem_vectors)
                 df == Get(made.self.problems_df)
                 response == UserStatusResponse(status2, subs)
                 solved_problems ==
                     IF Raised(response) \/ "status" \notin DOMAIN response THEN {}
                     ELSE IF response.status # "OK" THEN {}
                     ELSE SolvedProblems(response.result)
             IN  IF \/ Len(matrix) # Len(df)
                    \/ \E i \in DOMAIN matrix : Len(matrix[i]) # Len(user_vector)
                 THEN { outcome(TRUE, << >>, made.ret, solved_problems) }
                 ELSE LET recommendations_df ==
                              SelectSeq(WithSimilarity(df, user_vector, matrix),
                                        LAMBDA row : Keep(row, solved_problems, min_rating,
                                                          max_rating, tags))
                      IN  { outcome(FALSE, head(sorted, n_recommendations), made.ret,
                                    solved_problems) :
                                sorted \in sort_values(recommendations_df) }

(***************************************************************************)
(* The requests /recommend is called with, after recommend() has parsed    *)
(* count, min_rating, max_rating and tags.                                 *)
(***************************************************************************)
Request(n, lo, hi, tags) ==
    [n_recommendations |-> n, min_rating |-> lo, max_rating |-> hi, tags |-> tags]

Requests ==
    { Request(DefaultCount, None, None, None),
      Request(1, None, None, None),
      Request(2, Some(1200), None, None),
      Request(DefaultCount, Some(1000), Some(DefaultRating), None),
      Request(DefaultCount, None, None, Some(<<"dp", "graphs">>)) }

NoSubmissions == [h \in Handles |-> {}]

Idle == [op |-> "none"]

Serving == last.op = "recommend"

(***************************************************************************)
(* Process start: `recommender = CodeforcesRecommender()` at import.  The  *)
(* first start finds no file beside the module.                            *)
(***************************************************************************)
Started(disk, response, t) ==
    LET r == initialize(NewInstance, disk, response, t)
        fetched == ~CacheIsFresh(disk, t)
    IN  [self |-> r.self, disk |-> r.disk,
         fetch_time |-> IF fetched THEN Some(t) ELSE None,
         last |-> [op |-> "startup", fetched |-> fetched,
                   ok |-> ~fetched \/ ~IsNone(r.self.problems_df)]]

Init ==
    \E response \in ProblemsetResponses :
        \E s \in { Started([problems |-> None, tfidf |-> None, user_vectors |-> None],
                           response, 0) } :
            /\ problems_df = s.self.problems_df
            /\ tfidf_vectorizer = s.self.tfidf_vectorizer
            /\ problem_vectors = s.self.problem_vectors
            /\ user_vectors = s.self.user_vectors
            /\ last_update = s.self.last_update
            /\ PROBLEMS_PATH = s.disk.problems
            /\ TFIDF_MODEL_PATH = s.disk.tfidf
            /\ USER_VECTORS_PATH = s.disk.user_vectors
            /\ now = 0
            /\ submissions = NoSubmissions
            /\ fetch_time = s.fetch_time
            /\ last = s.last

(***************************************************************************)
(* The process is restarted: a new instance over the files left behind.    *)
(***************************************************************************)
Startup ==
    /\ ~Serving
    /\ \E response \in ProblemsetResponses :
        \E s \in { Started(Disk, response, now) } :
            /\ problems_df' = s.self.problems_df
            /\ tfidf_vectorizer' = s.self.tfidf_vectorizer
            /\ problem_vectors' = s.self.problem_vectors
            /\ user_vectors' = s.self.user_vectors
            /\ last_update' = s.self.last_update
            /\ PROBLEMS_PATH' = s.disk.problems
            /\ TFIDF_MODEL_PATH' = s.disk.tfidf
            /\ USER_VECTORS_PATH' = s.disk.user_vectors
            /\ fetch_time' = IF IsNone(s.fetch_time) THEN fetch_time ELSE s.fetch_time
            /\ last' = s.last
            /\ UNCHANGED << now, submissions >>

(***************************************************************************)
(* POST /refresh: fetch_problems and, when it succeeded,                   *)
(* process_problem_features.                                               *)
(***************************************************************************)
Refreshed(self, disk, response, t) ==
    LET success == fetch_problems(self, disk, response, t)
    IN  [self |-> IF success.ret THEN process_problem_features(success.self).self
                  ELSE success.self,
         disk |-> success.disk,
         ret |-> success.ret]

Refresh ==
    /\ ~Serving
    /\ \E response \in ProblemsetResponses :
        \E f \in { Refreshed(Self, Disk, response, now) } :
            /\ problems_df' = f.self.problems_df
            /\ tfidf_vectorizer' = f.self.tfidf_vectorizer
            /\ problem_vectors' = f.self.problem_vectors
            /\ user_vectors' = f.self.user_vectors
            /\ last_update' = f.self.last_update
            /\ PROBLEMS_PATH' = f.disk.problems
            /\ fetch_time' = Some(now)
            /\ last' = [op |-> "refresh", fetched |-> TRUE, ok |-> f.ret]
            /\ UNCHANGED << TFIDF_MODEL_PATH, USER_VECTORS_PATH, now, submissions >>

(***************************************************************************)
(* GET /recommend?handle=...: get_recommendations, whose list is returned. *)
(***************************************************************************)
Recommend ==
    /\ ~Serving
    /\ \E user_handle \in Handles, request \in Requests, status1, status2 \in UserStatusOutcomes :
        \* a user.status call that is not made has no outcome to choose
        /\ user_handle \in DOMAIN user_vectors => status1 = "OK"
        /\ status1 # "OK" => status2 = "OK"
        /\ \E r \in get_recommendations(Self, Disk, submissions[user_handle], user_handle,
                                     request.n_recommendations, request.min_rating,
                                     request.max_rating, request.tags, status1, status2) :
               /\ user_vectors' = r.self.user_vectors
               /\ USER_VECTORS_PATH' = r.disk.user_vectors
               /\ last' = [op |-> "recommend", handle |-> user_handle, request |-> request,
                           cached |-> r.cached, user_vector |-> r.user_vector,
                           solved_problems |-> r.solved_problems,
                           raised |-> r.raised, ret |-> r.ret]
               /\ UNCHANGED << problems_df, tfidf_vectorizer, problem_vectors, last_update,
                               PROBLEMS_PATH, TFIDF_MODEL_PATH, now, submissions,
                               fetch_time >>

(***************************************************************************)
(* recommend() returns jsonify of the list to the client.  The server      *)
(* handles one request at a time: nothing else runs in between.            *)
(***************************************************************************)
Respond ==
    /\ Serving
    /\ last' = Idle
    /\ UNCHANGED << problems_df, tfidf_vectorizer, problem_vectors, user_vectors,
                    last_update, PROBLEMS_PATH, TFIDF_MODEL_PATH, USER_VECTORS_PATH,
                    now, submissions, fetch_time >>

(***************************************************************************)
(* The world outside: a handle submits on Codeforces; time passes.         *)
(***************************************************************************)
Submit ==
    /\ ~Serving
    /\ \E h \in Handles, sub \in Submissions :
        /\ sub \notin submissions[h]
        /\ Cardinality(submissions[h]) < MaxSubmissions
        /\ submissions' = [submissions EXCEPT ![h] = @ \cup {sub}]
        /\ last' = Idle
        /\ UNCHANGED << problems_df, tfidf_vectorizer, problem_vectors, user_vectors,
                        last_update, PROBLEMS_PATH, TFIDF_MODEL_PATH, USER_VECTORS_PATH,
                        now, fetch_time >>

TimePasses ==
    /\ ~Serving
    /\ now + Tick <= MaxTicks * Tick
    /\ now' = now + Tick
    /\ last' = Idle
    /\ UNCHANGED << problems_df, tfidf_vectorizer, problem_vectors, user_vectors,
                    last_update, PROBLEMS_PATH, TFIDF_MODEL_PATH, USER_VECTORS_PATH,
                    submissions, fetch_time >>

Next == Startup \/ Refresh \/ Recommend \/ Respond \/ Submit \/ TimePasses

Spec == Init /\ [][Next]_vars

(***************************************************************************)
(* What the claims speak of.                                               *)
(***************************************************************************)
Returned == last.op = "recommend" /\ ~last.raised

\* the request got as far as ranking: a user vector was obtained
Ranked == Returned /\ ~IsNone(last.user_vector)

\* the identity keys of the problems the handle has an accepted submission for
Solved(h) ==
    { ProblemId(sub.problem.contestId, sub.problem.index) :
        sub \in { x \in submissions[h] : x.verdict = "OK" } }

ReturnedIds == { last.ret[k].problem_id : k \in DOMAIN last.ret }

Corpus == Get(problems_df)

Matrix == Get(problem_vectors)

PositionOf(id) == CHOOSE i \in DOMAIN Corpus : RowId(Corpus[i]) = id

\* v is the column-wise mean of rows, rounded down
IsMean(v, rows) ==
    /\ DOMAIN v = DOMAIN rows[1]
    /\ \A j \in DOMAIN v :
           LET total == SumSeq([i \in DOMAIN rows |-> rows[i][j]])
           IN  Len(rows) * v[j] <= total /\ total < Len(rows) * (v[j] + 1)

\* the corpus problem satisfies the filters of the request
Satisfies(row, request) ==
    /\ IsNone(request.min_rating)
           \/ ("rating" \in DOMAIN row /\ ~(row.rating < Get(request.min_rating)))
    /\ IsNone(request.max_rating)
           \/ ("rating" \in DOMAIN row /\ ~(row.rating > Get(request.max_rating)))
    /\ IsNone(request.tags)
           \/ Range(row.tags) \cap Range(Get(request.tags)) # {}

(***************************************************************************)
(* C1.  Exclusion: no problem of the handle's solved set (its submissions  *)
(* with verdict OK) is in the list get_recommendations returns, whatever   *)
(* the outcome of the submission fetches.                                  *)
(***************************************************************************)
C1_Exclusion == Returned => ReturnedIds \cap Solved(last.handle) = {}

\* a step of Startup or Refresh whose fetch_problems failed
FailedFetchStep ==
    /\ last'.op \in {"startup", "refresh"}
    /\ last'.fetched /\ ~last'.ok

(***************************************************************************)
(* C2.  A failed fetch_problems, at /refresh or at a startup whose cached  *)
(* corpus is stale, leaves the persisted corpus, and at /refresh the       *)
(* in-memory corpus and the feature matrix, as they were, so that a prior  *)
(* corpus (in memory or persisted) is the one in use afterwards.           *)
(***************************************************************************)
C2_FailedFetchKeepsCorpus ==
    [][FailedFetchStep =>
          /\ PROBLEMS_PATH' = PROBLEMS_PATH
          /\ last'.op = "refresh" =>
                 problems_df' = problems_df /\ problem_vectors' = problem_vectors
          /\ ~IsNone(PROBLEMS_PATH) =>
                 /\ ~IsNone(problems_df')
                 /\ [i \in DOMAIN Get(problems_df') |-> RowId(Get(problems_df')[i])]
                        = [i \in DOMAIN Get(PROBLEMS_PATH).data |->
                              RowId(Get(PROBLEMS_PATH).data[i])]]_vars

(***************************************************************************)
(* C3.  get_recommendations never raises to its caller: it returns a list, *)
(* empty when the user vector or the data for scoring cannot be obtained.  *)
(***************************************************************************)
C3_NeverRaises ==
    last.op = "recommend" =>
        /\ ~last.raised
        /\ (IsNone(last.user_vector) \/ IsNone(problems_df) \/ IsNone(problem_vectors))
               => last.ret = << >>

(***************************************************************************)
(* C4.  After startup and after every /refresh, whenever a corpus is       *)
(* resident the feature matrix exists and has one row per corpus problem,  *)
(* all rows of equal length.                                               *)
(***************************************************************************)
C4_MatrixMatchesCorpus ==
    (last.op \in {"startup", "refresh"} /\ ~IsNone(problems_df)) =>
        /\ ~IsNone(problem_vectors)
        /\ Len(Matrix) = Len(Corpus)
        /\ \A i, j \in DOMAIN Matrix : Len(Matrix[i]) = Len(Matrix[j])

(***************************************************************************)
(* C5.  Filter correctness: every returned problem has rating >=           *)
(* min_rating, rating <= max_rating and a tag in common with the requested *)
(* tags, each when supplied; and an unsolved corpus problem that satisfies *)
(* the supplied filters is missing from the list only when the list is     *)
(* full (count problems long).                                             *)
(***************************************************************************)
C5_FilterCorrectness ==
    Ranked =>
        /\ \A k \in DOMAIN last.ret : Satisfies(last.ret[k], last.request)
        /\ \A i \in DOMAIN Corpus :
               (/\ RowId(Corpus[i]) \notin Solved(last.handle)
                /\ Satisfies(Corpus[i], last.request))
                   => \/ RowId(Corpus[i]) \in ReturnedIds
                      \/ Len(last.ret) = last.request.n_recommendations

\* a request with both rating bounds was ranked, kept a problem and dropped
\* an unsolved one for its rating
C5_Witness ==
    /\ Ranked
    /\ ~IsNone(last.request.min_rating) /\ ~IsNone(last.request.max_rating)
    /\ last.ret # << >>
    /\ \E i \in DOMAIN Corpus :
           /\ RowId(Corpus[i]) \notin Solved(last.handle)
           /\ ~Satisfies(Corpus[i], last.request)

(***************************************************************************)
(* C6 as stated.  The returned list is sorted by similarity, descending,   *)
(* and two returned problems of equal similarity are in corpus order.      *)
(***************************************************************************)
C6_StableOrder ==
    Returned =>
        \A i, j \in DOMAIN last.ret :
            i < j => \/ last.ret[i].similarity > last.ret[j].similarity
                     \/ /\ last.ret[i].similarity = last.ret[j].similarity
                        /\ PositionOf(last.ret[i].problem_id)
                               < PositionOf(last.ret[j].problem_id)

(***************************************************************************)
(* C6 as amended.  The returned list is sorted by similarity, descending:  *)
(* similarity never increases along it; it holds min(count, number of      *)
(* problems that pass the filters) problems, and no problem left out for   *)
(* the count has a higher similarity than a returned one.  The order of    *)
(* problems of equal similarity is not determined.                         *)
(***************************************************************************)
C6_SortedDescending ==
    Ranked =>
        /\ \A i, j \in DOMAIN last.ret :
               i < j => last.ret[i].similarity >= last.ret[j].similarity
        /\ LET passing == { i \in DOMAIN Corpus :
                              /\ RowId(Corpus[i]) \notin last.solved_problems
                              /\ Satisfies(Corpus[i], last.request) }
               n == last.request.n_recommendations
           IN  /\ Len(last.ret) = IF n < Cardinality(passing)
                                  THEN n ELSE Cardinality(passing)
               /\ ReturnedIds \subseteq { RowId(Corpus[i]) : i \in passing }
               /\ Cardinality(ReturnedIds) = Len(last.ret)
               /\ \A i \in passing, k \in DOMAIN last.ret :
                      RowId(Corpus[i]) \notin ReturnedIds
                          => Cosine(Get(last.user_vector), Matrix[i])
                                 <= last.ret[k].similarity

\* a list was returned that holds two problems of equal similarity and a
\* third of lower similarity
C6_Witness ==
    /\ Ranked
    /\ \E i, j, k \in DOMAIN last.ret :
           /\ i < j /\ j < k
           /\ last.ret[i].similarity = last.ret[j].similarity
           /\ last.ret[j].similarity > last.ret[k].similarity

\* when the resident corpus was fetched
CorpusTime == Get(PROBLEMS_PATH).mtime

(***************************************************************************)
(* C7.  A corpus fetch is started when no cached corpus exists, when the   *)
(* cached corpus is older than CACHE_TIME, or on /refresh: no              *)
(* recommendation is served from a corpus older than CACHE_TIME unless a   *)
(* fetch was attempted once it had reached that age.  The resident corpus  *)
(* is the persisted one, so its age is that of the file.                   *)
(***************************************************************************)
C7_NoStaleServing ==
    (Ranked /\ ~IsNone(problems_df) /\ now - CorpusTime > CACHE_TIME) =>
        /\ ~IsNone(fetch_time)
        /\ Get(fetch_time) - CorpusTime >= CACHE_TIME

RatingOr1500(row) == IF "rating" \in DOMAIN row THEN row.rating ELSE DefaultRating

(***************************************************************************)
(* C8 as stated.  Ratings are never missing at ranking time: a problem     *)
(* fetched without a rating counts as rated 1500 in the min_rating and     *)
(* max_rating filters, and no returned problem has an undefined rating.    *)
(***************************************************************************)
C8_RatingsNeverMissing ==
    Ranked =>
        /\ \A k \in DOMAIN last.ret : "rating" \in DOMAIN last.ret[k]
        /\ \A i \in DOMAIN Corpus :
               (/\ RowId(Corpus[i]) \notin Solved(last.handle)
                /\ Satisfies([rating |-> RatingOr1500(Corpus[i])] @@ Corpus[i],
                             last.request))
                   => \/ RowId(Corpus[i]) \in ReturnedIds
                      \/ Len(last.ret) = last.request.n_recommendations

\* the column of the feature matrix that holds the scaled rating
RatingColumn == Len(Matrix[1]) - 1

(***************************************************************************)
(* C8 as amended.  The default 1500 stands in for a missing rating only in *)
(* the scaled-rating column of the feature matrix.  The corpus keeps the   *)
(* rating missing: get_recommendations returns no unrated problem when     *)
(* min_rating or max_rating is supplied, and a returned problem has a      *)
(* rating exactly when it has one in the corpus.                           *)
(***************************************************************************)
C8_DefaultOnlyInFeatures ==
    /\ (~IsNone(problems_df) /\ ~IsNone(problem_vectors)) =>
           LET filled == { RatingOr1500(Corpus[i]) : i \in DOMAIN Corpus }
               lo == MinOf(filled)
               hi == MaxOf(filled)
           IN  \A i \in DOMAIN Corpus :
                   "rating" \notin DOMAIN Corpus[i] =>
                       LET x == Matrix[i][RatingColumn]
                       IN  IF hi = lo THEN x = 0
                           ELSE /\ x * (hi - lo) <= (DefaultRating - lo) * Scale
                                /\ (DefaultRating - lo) * Scale < (x + 1) * (hi - lo)
    /\ Ranked =>
           \A k \in DOMAIN last.ret :
               /\ (~IsNone(last.request.min_rating) \/ ~IsNone(last.request.max_rating))
                      => "rating" \in DOMAIN last.ret[k]
               /\ "rating" \in DOMAIN last.ret[k]
                      <=> "rating" \in DOMAIN Corpus[PositionOf(last.ret[k].problem_id)]

\* a request with rating bounds that include 1500 was ranked over a corpus
\* with an unrated, unsolved problem, which is not in the list although the
\* list has room
C8_Witness ==
    /\ Ranked
    /\ ~IsNone(last.request.min_rating) /\ ~IsNone(last.request.max_rating)
    /\ Get(last.request.min_rating) <= DefaultRating
    /\ DefaultRating <= Get(last.request.max_rating)
    /\ Len(last.ret) < last.request.n_recommendations
    /\ \E i \in DOMAIN Corpus :
           /\ "rating" \notin DOMAIN Corpus[i]
           /\ RowId(Corpus[i]) \notin Solved(last.handle)
           /\ RowId(Corpus[i]) \notin ReturnedIds

(***************************************************************************)
(* The resident corpus is always the persisted one (less the tags_text     *)
(* column the instance adds).                                              *)
(***************************************************************************)
ResidentCorpusIsPersisted ==
    ~IsNone(problems_df) =>
        /\ ~IsNone(PROBLEMS_PATH)
        /\ [i \in DOMAIN Corpus |->
               [c \in DOMAIN Corpus[i] \ {"tags_text"} |-> Corpus[i][c]]]
               = Get(PROBLEMS_PATH).data

SameLengthAsRows(v) == \A i \in DOMAIN Matrix : Len(Matrix[i]) = Len(v)

C9_DimensionInv ==
    /\ ~IsNone(problem_vectors) =>
           /\ \A h \in DOMAIN user_vectors : SameLengthAsRows(user_vectors[h])
           /\ ~IsNone(USER_VECTORS_PATH) =>
                  \A h \in DOMAIN Get(USER_VECTORS_PATH) :
                      SameLengthAsRows(Get(USER_VECTORS_PATH)[h])
           /\ Ranked => SameLengthAsRows(Get(last.user_vector))
    /\ tfidf_vectorizer = TFIDF_MODEL_PATH
    /\ IsNone(TFIDF_MODEL_PATH) =>
           IsNone(USER_VECTORS_PATH) /\ DOMAIN user_vectors = {}

SolvedRows(h) ==
    LET indices == SelectSeq([i \in DOMAIN Corpus |-> i],
                             LAMBDA i : RowId(Corpus[i]) \in Solved(h))
    IN  IF indices = << >> THEN Matrix
        ELSE [k \in DOMAIN indices |-> Matrix[indices[k]]]

(***************************************************************************)
(* C10 as stated.  The user vector get_recommendations scores against is   *)
(* the mean of the current feature rows of the problems the handle has     *)
(* currently solved and that are in the current corpus, or of the whole    *)
(* matrix when there is none.                                              *)
(***************************************************************************)
C10_ProfileIsCurrent ==
    Ranked => IsMean(Get(last.user_vector), SolvedRows(last.handle))

C10_ProfileInv ==
    Ranked =>
        /\ last.handle \in DOMAIN user_vectors
        /\ user_vectors[last.handle] = Get(last.user_vector)
        /\ USER_VECTORS_PATH = Some(user_vectors)
        /\ ~last.cached => IsMean(Get(last.user_vector), SolvedRows(last.handle))

(***************************************************************************)
(* C10 as amended.  A user vector is built only when none is stored for    *)
(* the handle; it is then the mean of the current feature rows of the      *)
(* problems the handle has solved and that are in the corpus, or of the    *)
(* whole matrix when there is none, and it is stored in memory and in the  *)
(* file.  A stored vector is the one scored against, and it never changes  *)
(* afterwards, whatever is refreshed or solved later.                      *)
(***************************************************************************)
C10_ProfileBuiltOnce ==
    /\ []C10_ProfileInv
    /\ [][\A h \in DOMAIN user_vectors :
              h \in DOMAIN user_vectors' /\ user_vectors'[h] = user_vectors[h]]_vars

\* a vector was built for a handle that has solved a problem of the corpus
C10_Witness ==
    /\ Ranked /\ ~last.cached
    /\ \E i \in DOMAIN Corpus : RowId(Corpus[i]) \in Solved(last.handle)
    /\ Get(last.user_vector) # MeanRows(Matrix)

====
